---- MODULE Spec2Model ----
(***************************************************************************)
(* Model of src/model/utils.py (UIS-RNN utilities):                        *)
(*   weighted_mse_loss, sample_permuted_segments, resize_sequence,         *)
(*   pack_sequence.                                                        *)
(*                                                                         *)
(* The functions share no state.  The model keeps, per function, a record  *)
(* of the arguments, the locals and the return value of its last call.     *)
(* A training step calls resize_sequence once and pack_sequence repeatedly *)
(* on its result, so pack_sequence reads the record resize_sequence left.  *)
(*                                                                         *)
(* Conventions: arrays are TLA+ sequences (1-based); array INDICES that    *)
(* the code stores as values (np.where results, permute_index, mini_batch) *)
(* keep the code's 0-based numbering.  An optional argument is <<>> for    *)
(* None and <<v>> for the value v.  A float quotient a / b is the record   *)
(* [num |-> a, den |-> b] (exact arithmetic, den = 0 for a division by     *)
(* zero, which torch evaluates to inf or nan without raising).             *)
(***************************************************************************)
EXTENDS Integers, Sequences, FiniteSets

VARIABLES call, sampler, resize, pack, mse

vars == <<call, sampler, resize, pack, mse>>

----------------------------------------------------------------------------
(* Bounds of the model *)

\* longest index_sequence given to sample_permuted_segments directly
MaxIndexLen == 3
\* largest integer in such an index_sequence
MaxIndex == 2
\* longest cluster_id / sequence given to resize_sequence
MaxSeqLen == 3
\* largest batch_size given to pack_sequence
MaxBatch == 2
\* most rows of the tensors given to weighted_mse_loss
MaxRows == 2
\* most all-zero rows appended when padding is compared
MaxPad == 2

\* number_samples / num_permutations values
NumberSamples == {1, 2}
NumPermutations == {<<>>, <<-1>>, <<0>>, <<1>>, <<2>>}
\* cluster labels of the enumerated labellings
ClusterIds == {0, 1}
\* the labelling of the documented example
ExampleClusterId == <<0, 0, 1, 1, 0>>
\* a labelling with three labels, first met in the order 2, 0, 1
ThreeClusterId == <<2, 0, 2, 1>>
\* last dimension of the loss tensors, their entries, the weights
ObservationDims == {1, 2}
InputEntries == {0, 1}
TargetEntries == {0, 1}
Weights == {-1, 1, 2}

----------------------------------------------------------------------------
(* Generic array helpers (numpy / python built-ins) *)

None == <<>>
IsNone(x) == x = <<>>
\* python truthiness of an optional integer: None and 0 are falsy
Truthy(x) == x # <<>> /\ x[1] # 0

\* python slice a[lo:hi] with 0-based lo, hi (hi exclusive), clipped to the array
Slice(a, lo, hi) ==
  LET h == IF hi > Len(a) THEN Len(a) ELSE hi
  IN  IF lo >= h THEN <<>> ELSE SubSeq(a, lo + 1, h)

\* a[::-1]
Reverse(a) == [i \in 1..Len(a) |-> a[Len(a) + 1 - i]]

RECURSIVE InsertSorted(_, _)
InsertSorted(a, x) ==
  IF a = <<>> THEN <<x>>
  ELSE IF x < Head(a) THEN <<x>> \o a
  ELSE <<Head(a)>> \o InsertSorted(Tail(a), x)

\* np.sort(a): ascending
RECURSIVE Sort(_)
Sort(a) == IF a = <<>> THEN <<>> ELSE InsertSorted(Sort(Tail(a)), Head(a))

\* np.random.permutation(n): any arrangement of 0..n-1
Permutation(n) ==
  {p \in [1..n -> 0..(n - 1)] : \A i, j \in 1..n : p[i] = p[j] => i = j}

\* np.concatenate(arrays)
RECURSIVE Concatenate(_)
Concatenate(arrays) ==
  IF arrays = <<>> THEN <<>> ELSE Head(arrays) \o Concatenate(Tail(arrays))

\* a[idx, :] : gather by an index array (0-based indices)
Gather(a, idx) == [k \in 1..Len(idx) |-> a[idx[k] + 1]]

----------------------------------------------------------------------------
(* sample_permuted_segments *)

\* the loop body's dropped-tail variant: the last segment is never appended
RECURSIVE SegmentLoopNoTail(_, _, _, _)
SegmentLoopNoTail(index_sequence, i, prev, segments) ==
  IF i >= Len(index_sequence) - 1 THEN segments
  ELSE LET brk == index_sequence[i + 2] # index_sequence[i + 1] + 1
       IN  SegmentLoopNoTail(index_sequence, i + 1,
             IF brk THEN i + 1 ELSE prev,
             IF brk THEN Append(segments, Slice(index_sequence, prev, i + 1))
                    ELSE segments)

\* for i in range(len(index_sequence) - 1): ...
RECURSIVE SegmentLoop(_, _, _, _)
SegmentLoop(index_sequence, i, prev, segments) ==
  IF i >= Len(index_sequence) - 1 THEN segments
  ELSE LET brk   == index_sequence[i + 2] # index_sequence[i + 1] + 1
           segs1 == IF brk
                    THEN Append(segments, Slice(index_sequence, prev, i + 1))
                    ELSE segments
           prev1 == IF brk THEN i + 1 ELSE prev
           segs2 == IF i + 1 = Len(index_sequence) - 1
                    THEN Append(segs1,
                           Slice(index_sequence, prev1, Len(index_sequence)))
                    ELSE segs1
       IN  SegmentLoop(index_sequence, i + 1, prev1, segs2)

\* the list `segments` built by lines 68-78
Segments(index_sequence) ==
  IF Len(index_sequence) = 1 THEN <<index_sequence>>
  ELSE SegmentLoop(index_sequence, 0, 0, <<>>)

\* one sample: the segments concatenated in the order `permutation`
PermutedSegments(segments, permutation) ==
  Concatenate([i \in 1..Len(permutation) |-> segments[permutation[i] + 1]])

\* every list sample_permuted_segments can return (one draw per sample)
sample_permuted_segments(index_sequence, number_samples) ==
  LET segments == Segments(index_sequence)
  IN  [1..number_samples ->
         {PermutedSegments(segments, permutation) :
            permutation \in Permutation(Len(segments))}]

----------------------------------------------------------------------------
(* resize_sequence *)

Min(S) == CHOOSE x \in S : \A y \in S : x <= y

RECURSIVE SortedSeqOf(_)
SortedSeqOf(S) ==
  IF S = {} THEN <<>> ELSE <<Min(S)>> \o SortedSeqOf(S \ {Min(S)})

\* np.unique(cluster_id): the distinct labels, ascending
Unique(cluster_id) ==
  SortedSeqOf({cluster_id[k] : k \in 1..Len(cluster_id)})

RECURSIVE WhereFrom(_, _, _)
WhereFrom(cluster_id, i, k) ==
  IF k > Len(cluster_id) THEN <<>>
  ELSE (IF cluster_id[k] = i THEN <<k - 1>> ELSE <<>>)
       \o WhereFrom(cluster_id, i, k + 1)

\* a comparison slip: cluster_id >= i instead of cluster_id == i
WhereAtLeast(cluster_id, i) ==
  SortedSeqOf({k - 1 : k \in {k \in 1..Len(cluster_id) : cluster_id[k] >= i}})

\* np.where(cluster_id == i)[0]: the 0-based positions labelled i, ascending
Where(cluster_id, i) == WhereFrom(cluster_id, i, 1)

\* len(idx_set) + 1
RecordedLength(idx_set) == Len(idx_set) + 1

\* the loops nested the other way round: for j ...: for i in unique_id: ...
PermutedEntriesBySample(per_label, num) ==
  Concatenate([j \in 1..num |-> [l \in 1..Len(per_label) |-> per_label[l][j]]])

\* for i in unique_id: ... for j in range(num_permutations): append(...)
\* per_label[l][j] is what the j-th inner iteration appends for the l-th label
PermutedEntries(per_label, num) ==
  Concatenate([l \in 1..Len(per_label) |-> [j \in 1..num |-> per_label[l][j]]])

\* the transition loop run over range(len(cluster_id) - 2): last pair skipped
RECURSIVE TransitNumShort(_, _)
TransitNumShort(cluster_id, entry) ==
  IF entry >= Len(cluster_id) - 2 THEN 0
  ELSE (IF cluster_id[entry + 1] # cluster_id[entry + 2] THEN 1 ELSE 0)
       + TransitNumShort(cluster_id, entry + 1)

\* for entry in range(len(cluster_id) - 1): transit_num += (c[entry] != c[entry+1])
RECURSIVE TransitNum(_, _)
TransitNum(cluster_id, entry) ==
  IF entry >= Len(cluster_id) - 1 THEN 0
  ELSE (IF cluster_id[entry + 1] # cluster_id[entry + 2] THEN 1 ELSE 0)
       + TransitNum(cluster_id, entry + 1)

\* bias = (transit_num + 1) / len(cluster_id)
Bias(cluster_id) ==
  [num |-> TransitNum(cluster_id, 0) + 1, den |-> Len(cluster_id)]

\* every (locals, return value) resize_sequence can produce
resize_sequence(sequence, cluster_id, num_permutations) ==
  LET unique_id == Unique(cluster_id)
      K         == Len(unique_id)
      idx_sets  == [l \in 1..K |-> Where(cluster_id, unique_id[l])]
      Result(gathered, lengths) ==
        [sequence         |-> sequence,
         cluster_id       |-> cluster_id,
         num_permutations |-> num_permutations,
         unique_id        |-> unique_id,
         idx_sets         |-> idx_sets,
         gathered         |-> gathered,
         sub_sequences    |-> [e \in 1..Len(gathered) |->
                                 Gather(sequence, gathered[e])],
         seq_lengths      |-> lengths,
         bias             |-> Bias(cluster_id)]
  IN  IF Truthy(num_permutations) /\ num_permutations[1] > 1
      THEN LET num     == num_permutations[1]
               Draws(l) == sample_permuted_segments(idx_sets[l], num)
               AllDraws ==
                 {d \in [1..K -> UNION {Draws(l) : l \in 1..K}] :
                    \A l \in 1..K : d[l] \in Draws(l)}
           IN  {Result(PermutedEntries(sampled_idx_sets, num),
                       PermutedEntries(
                         [l \in 1..K |->
                            [j \in 1..num |-> RecordedLength(idx_sets[l])]],
                         num)) :
                  sampled_idx_sets \in AllDraws}
      ELSE {Result(idx_sets,
                   [l \in 1..K |-> RecordedLength(idx_sets[l])])}

----------------------------------------------------------------------------
(* pack_sequence *)

\* np.zeros((T, B, D))
Zeros(T, B, D) == [t \in 1..T |-> [c \in 1..B |-> [d \in 1..D |-> 0]]]

\* np.argsort(seq_lengths)[::-1]: numpy leaves the order of equal keys open,
\* so any index arrangement that lists the lengths in descending order
ArgsortDescending(seq_lengths) ==
  LET sorted == Reverse(Sort(seq_lengths))
  IN  {p \in Permutation(Len(seq_lengths)) :
         \A i \in 1..Len(p) : seq_lengths[p[i] + 1] = sorted[i]}

\* np.random.choice(num_clusters, batch_size, replace=False): no index twice
ChoiceWithoutReplacement(num_clusters, batch_size) ==
  {c \in [1..batch_size -> 0..(num_clusters - 1)] :
     \A i, j \in 1..batch_size : c[i] = c[j] => i = j}

\* np.random.choice(num_clusters, batch_size): replace defaults to True, each
\* of the batch_size draws is any of 0..num_clusters-1
Choice(num_clusters, batch_size) ==
  [1..batch_size -> 0..(num_clusters - 1)]

\* the draw used as it comes, without np.sort
MiniBatchUnsorted(num_clusters, batch_size) == Choice(num_clusters, batch_size)

\* np.sort(np.random.choice(num_clusters, batch_size))
MiniBatch(num_clusters, batch_size) ==
  {Sort(c) : c \in Choice(num_clusters, batch_size)}

\* number of rows of the slice rnn_input[1:length, i, :] of a tensor of T rows
SliceRows(length, T) ==
  LET hi == IF length > T THEN T ELSE length
  IN  IF hi > 1 THEN hi - 1 ELSE 0

\* numpy accepts the assignment when the row counts agree or the right-hand
\* side has one row (broadcast), and the row width is observation_dim
Assignable(sub_sequence, length, T, observation_dim) ==
  /\ Len(sub_sequence) = SliceRows(length, T) \/ Len(sub_sequence) = 1
  /\ \A r \in 1..Len(sub_sequence) : Len(sub_sequence[r]) = observation_dim

\* sorted_seq_lengths[0] / sorted_seq_lengths[mini_batch[0]]
TimeRows(sorted_seq_lengths, active) == sorted_seq_lengths[active[1] + 1]

\* the copy loop writing at row 0: rnn_input[0:length-1, i, :] = ...
FilledFromRowZero(T, observation_dim, sub_sequences, lengths, source) ==
  [t \in 1..T |-> [c \in 1..Len(source) |->
     IF t <= SliceRows(lengths[c], T)
     THEN LET sub == sub_sequences[source[c] + 1]
          IN  IF Len(sub) = 1 THEN sub[1] ELSE sub[t]
     ELSE Zeros(T, Len(source), observation_dim)[t][c]]]

\* rnn_input after the copy loop: column c (1-based) holds, in rows
\* 1..length-1 (0-based), the sub-sequence sub_sequences[source[c]]
Filled(T, observation_dim, sub_sequences, lengths, source) ==
  [t \in 1..T |-> [c \in 1..Len(source) |->
     IF 2 <= t /\ t - 1 <= SliceRows(lengths[c], T)
     THEN LET sub == sub_sequences[source[c] + 1]
          IN  IF Len(sub) = 1 THEN sub[1] ELSE sub[t - 1]
     ELSE Zeros(T, Len(source), observation_dim)[t][c]]]

\* the ground truth taken unshifted
Unshifted(rnn_input) == rnn_input

\* rnn_input[1:, :, :]
Shifted(rnn_input) == Slice(rnn_input, 1, Len(rnn_input))

\* torch.nn.utils.rnn.pack_padded_sequence accepts lengths that are
\* non-increasing, positive and within the tensor's time dimension
Packable(rnn_input, lengths) ==
  /\ \A c \in 1..Len(lengths) : 1 <= lengths[c] /\ lengths[c] <= Len(rnn_input)
  /\ \A c \in 1..(Len(lengths) - 1) : lengths[c] >= lengths[c + 1]

PackError(batch_size) ==
  [status |-> "error", batch_size |-> batch_size, permute_index |-> <<>>,
   sorted_seq_lengths |-> <<>>, mini_batch |-> <<>>, rnn_input |-> <<>>,
   lengths |-> <<>>, rnn_truth |-> <<>>]

\* pack_sequence with the two library choices it leaves open made explicit:
\* permute_index (argsort's order of ties) and mini_batch (the random draw)
pack_sequence(sub_sequences, seq_lengths, batch_size, observation_dim, permute_index, mini_batch) ==
  LET num_clusters       == Len(seq_lengths)
      sorted_seq_lengths == Reverse(Sort(seq_lengths))
      \* the columns' 0-based positions in sorted order
      active  == IF IsNone(batch_size)
                 THEN [i \in 1..num_clusters |-> i - 1]
                 ELSE mini_batch
      lengths == [c \in 1..Len(active) |-> sorted_seq_lengths[active[c] + 1]]
      source  == [c \in 1..Len(active) |-> permute_index[active[c] + 1]]
  IN  IF Len(active) = 0
      THEN PackError(batch_size)   \* IndexError: index 0 of an empty array
      ELSE
        LET T == TimeRows(sorted_seq_lengths, active)
            rnn_input ==
              Filled(T, observation_dim, sub_sequences, lengths, source)
        IN  IF /\ T >= 0
               /\ \A c \in 1..Len(active) :
                    Assignable(sub_sequences[source[c] + 1], lengths[c], T,
                               observation_dim)
               /\ Packable(rnn_input, lengths)
            THEN [status             |-> "ok",
                  batch_size         |-> batch_size,
                  permute_index      |-> permute_index,
                  sorted_seq_lengths |-> sorted_seq_lengths,
                  mini_batch         |-> mini_batch,
                  rnn_input          |-> rnn_input,
                  lengths            |-> lengths,
                  rnn_truth          |-> Shifted(rnn_input)]
            ELSE PackError(batch_size)   \* shape error / packing error

----------------------------------------------------------------------------
(* weighted_mse_loss *)

RECURSIVE SumSeq(_)
SumSeq(a) == IF a = <<>> THEN 0 ELSE Head(a) + SumSeq(Tail(a))

\* torch.diag(weight.float().view(-1))
Diag(weight) ==
  [k \in 1..Len(weight) |-> [d \in 1..Len(weight) |->
     IF k = d THEN weight[k] ELSE 0]]

\* torch.mm(a, b)
Mm(a, b) ==
  [r \in 1..Len(a) |-> [d \in 1..Len(b[1]) |->
     SumSeq([k \in 1..Len(b) |-> a[r][k] * b[k][d]])]]

\* the error left unsquared: (input_tensor - target_tensor)
Error(input_tensor, target_tensor) ==
  [r \in 1..Len(input_tensor) |-> [d \in 1..Len(input_tensor[r]) |->
     input_tensor[r][d] - target_tensor[r][d]]]

\* ((input_tensor - target_tensor) ** 2).view(-1, observation_dim)
SquaredError(input_tensor, target_tensor) ==
  [r \in 1..Len(input_tensor) |-> [d \in 1..Len(input_tensor[r]) |->
     (input_tensor[r][d] - target_tensor[r][d])
       * (input_tensor[r][d] - target_tensor[r][d])]]

\* torch.sum(streched_tensor[:, 0] != 0)
NonZeroEntryNum(streched_tensor) ==
  Cardinality({r \in 1..Len(streched_tensor) : streched_tensor[r][1] # 0})

\* the mean left uncorrected: mean * nelement / non_zero_entry_num
UncorrectedMean(total, elements, nelement, entry_num, non_zero_entry_num) ==
  [num |-> total * nelement, den |-> elements * non_zero_entry_num]

\* torch.mean(weighted_tensor) * weight.nelement() * entry_num
\*   / non_zero_entry_num, with mean = total / elements
CorrectedMean(total, elements, nelement, entry_num, non_zero_entry_num) ==
  [num |-> total * nelement * entry_num, den |-> elements * non_zero_entry_num]

weighted_mse_loss(input_tensor, target_tensor, weight) ==
  LET observation_dim    == Len(input_tensor[1])
      streched_tensor    == SquaredError(input_tensor, target_tensor)
      entry_num          == Len(streched_tensor)
      non_zero_entry_num == NonZeroEntryNum(streched_tensor)
      weighted_tensor    ==
        Mm(SquaredError(input_tensor, target_tensor), Diag(weight))
      total == SumSeq([r \in 1..entry_num |-> SumSeq(weighted_tensor[r])])
  IN  CorrectedMean(total, entry_num * observation_dim, Len(weight),
                    entry_num, non_zero_entry_num)

----------------------------------------------------------------------------
(* The calls *)

NoSampler == [index_sequence |-> <<>>, number_samples |-> 0,
              sampled_index_sequences |-> <<>>]
NoResize  == [sequence |-> <<>>, cluster_id |-> <<>>,
              num_permutations |-> <<>>, unique_id |-> <<>>,
              idx_sets |-> <<>>, gathered |-> <<>>, sub_sequences |-> <<>>,
              seq_lengths |-> <<>>, bias |-> [num |-> 0, den |-> 0]]
NoPack    == [status |-> "none", batch_size |-> <<>>, permute_index |-> <<>>,
              sorted_seq_lengths |-> <<>>, mini_batch |-> <<>>,
              rnn_input |-> <<>>, lengths |-> <<>>, rnn_truth |-> <<>>]
NoMse     == [input_tensor |-> <<>>, target_tensor |-> <<>>, weight |-> <<>>,
              loss |-> [num |-> 0, den |-> 0]]

\* the inputs drawn for resize_sequence
ClusterIdInputs ==
  UNION {[1..n -> ClusterIds] : n \in 1..MaxSeqLen}
    \cup {ExampleClusterId, ThreeClusterId}
SequenceInputs(n) ==
  {[k \in 1..n |-> <<k, 0 - k>>], [k \in 1..n |-> <<k % 2>>]}
BatchSizes == {None} \cup {<<b>> : b \in 0..MaxBatch}

Init ==
  /\ call = "none"
  /\ sampler = NoSampler
  /\ resize = NoResize
  /\ pack = NoPack
  /\ mse = NoMse

SamplePermutedSegments ==
  /\ call = "none"
  /\ \E n \in 1..MaxIndexLen :
    \E index_sequence \in [1..n -> 0..MaxIndex] :
      \E number_samples \in NumberSamples :
        \E sampled \in sample_permuted_segments(index_sequence, number_samples) :
          /\ call' = "sample_permuted_segments"
          /\ sampler' = [index_sequence |-> index_sequence,
                         number_samples |-> number_samples,
                         sampled_index_sequences |-> sampled]
          /\ resize' = NoResize
          /\ pack' = NoPack
          /\ mse' = NoMse

ResizeSequence ==
  /\ call = "none"
  /\ \E cluster_id \in ClusterIdInputs :
    \E sequence \in SequenceInputs(Len(cluster_id)) :
      \E num_permutations \in NumPermutations :
        \E result \in resize_sequence(sequence, cluster_id, num_permutations) :
          /\ call' = "resize_sequence"
          /\ resize' = result
          /\ sampler' = NoSampler
          /\ pack' = NoPack
          /\ mse' = NoMse

\* the training loop packs the sub-sequences resize_sequence returned
PackSequence ==
  /\ call = "resize_sequence"
  /\ \E batch_size \in BatchSizes :
       \E permute_index \in ArgsortDescending(resize.seq_lengths) :
         LET draws == IF IsNone(batch_size) THEN {<<>>}
                      ELSE MiniBatch(Len(resize.seq_lengths), batch_size[1])
         IN  /\ call' = "pack_sequence"
             /\ IF draws = {}
                \* np.random.choice raises ValueError: no such draw exists
                THEN pack' = PackError(batch_size)
                ELSE \E mini_batch \in draws :
                       pack' = pack_sequence(
                                 resize.sub_sequences, resize.seq_lengths,
                                 batch_size, Len(resize.sequence[1]),
                                 permute_index, mini_batch)
             /\ UNCHANGED <<sampler, resize, mse>>

WeightedMseLoss ==
  /\ call = "none"
  /\ \E observation_dim \in ObservationDims :
    \E rows \in 1..MaxRows :
      \E input_tensor \in [1..rows -> [1..observation_dim -> InputEntries]] :
        \E target_tensor \in [1..rows -> [1..observation_dim -> TargetEntries]] :
          \E weight \in [1..observation_dim -> Weights] :
            /\ call' = "weighted_mse_loss"
            /\ mse' = [input_tensor |-> input_tensor,
                       target_tensor |-> target_tensor,
                       weight |-> weight,
                       loss |-> weighted_mse_loss(input_tensor, target_tensor,
                                                  weight)]
            /\ sampler' = NoSampler
            /\ resize' = NoResize
            /\ pack' = NoPack

\* the caller consumes the results; nothing outlives the training step
Return ==
  /\ call # "none"
  /\ call' = "none"
  /\ sampler' = NoSampler
  /\ resize' = NoResize
  /\ pack' = NoPack
  /\ mse' = NoMse

Next ==
  \/ SamplePermutedSegments
  \/ ResizeSequence
  \/ PackSequence
  \/ WeightedMseLoss
  \/ Return

Spec == Init /\ [][Next]_vars

----------------------------------------------------------------------------
(* Vocabulary of the properties, stated without the operators above *)

\* lo..hi (1-based) is a maximal run of consecutive integers of s
IsMaximalRun(s, lo, hi) ==
  /\ lo <= hi
  /\ \A k \in lo..(hi - 1) : s[k + 1] = s[k] + 1
  /\ lo = 1 \/ s[lo] # s[lo - 1] + 1
  /\ hi = Len(s) \/ s[hi + 1] # s[hi] + 1

MaximalRuns(s) ==
  {r \in (1..Len(s)) \X (1..Len(s)) : IsMaximalRun(s, r[1], r[2])}

RECURSIVE JoinRuns(_, _)
JoinRuns(s, order) ==
  IF order = <<>> THEN <<>>
  ELSE SubSeq(s, order[1][1], order[1][2]) \o JoinRuns(s, Tail(order))

\* out lists the maximal runs of s, each exactly once, in some order
IsRunArrangement(out, s) ==
  LET runs == MaximalRuns(s)
      k    == Cardinality(runs)
  IN  \E order \in [1..k -> runs] :
        /\ \A a, b \in 1..k : order[a] = order[b] => a = b
        /\ out = JoinRuns(s, order)

SameMultiset(a, b) ==
  \A v \in {a[k] : k \in 1..Len(a)} \cup {b[k] : k \in 1..Len(b)} :
    Cardinality({k \in 1..Len(a) : a[k] = v})
      = Cardinality({k \in 1..Len(b) : b[k] = v})

Labels(cluster_id) == {cluster_id[k] : k \in 1..Len(cluster_id)}

\* the l-th smallest label (l = 1, 2, ...)
LabelOfRank(cluster_id, l) ==
  CHOOSE v \in Labels(cluster_id) :
    Cardinality({w \in Labels(cluster_id) : w < v}) = l - 1

\* the 0-based positions labelled v
PositionSet(cluster_id, v) ==
  {k - 1 : k \in {k \in 1..Len(cluster_id) : cluster_id[k] = v}}

\* ... as an ascending array
Positions(cluster_id, v) ==
  LET S == PositionSet(cluster_id, v)
  IN  CHOOSE p \in [1..Cardinality(S) -> S] :
        \A a, b \in 1..Cardinality(S) : a < b => p[a] < p[b]

\* the observations at the positions idx, in that order
RowsAt(sequence, idx) == [k \in 1..Len(idx) |-> sequence[idx[k] + 1]]

AllZero(row) == \A d \in 1..Len(row) : row[d] = 0

RECURSIVE SumOf(_)
SumOf(f) ==
  IF DOMAIN f = {} THEN 0
  ELSE LET x == CHOOSE x \in DOMAIN f : TRUE
       IN  f[x] + SumOf([y \in DOMAIN f \ {x} |-> f[y]])

Packed == call = "pack_sequence"

----------------------------------------------------------------------------
(* C1: every array sample_permuted_segments returns is the input's maximal *)
(* runs of consecutive integers, each used exactly once with its internal  *)
(* order kept, concatenated in some order; so it has the input's length    *)
(* and the input's multiset of elements.                                   *)
C1_SegmentsPreserved ==
  call = "sample_permuted_segments" =>
    /\ Len(sampler.sampled_index_sequences) = sampler.number_samples
    /\ \A j \in 1..sampler.number_samples :
         LET out == sampler.sampled_index_sequences[j]
         IN  /\ IsRunArrangement(out, sampler.index_sequence)
             /\ Len(out) = Len(sampler.index_sequence)
             /\ SameMultiset(out, sampler.index_sequence)

\* an input of several runs, one sample of which really is reordered
C1_Witness ==
  /\ call = "sample_permuted_segments"
  /\ sampler.index_sequence = <<1, 2, 0>>
  /\ sampler.number_samples = 2
  /\ sampler.sampled_index_sequences = <<(<<0, 1, 2>>), (<<1, 2, 0>>)>>

----------------------------------------------------------------------------
(* C2: the per-label index sets resize_sequence gathers, one per distinct   *)
(* label, are pairwise disjoint and cover exactly 0..N-1; without           *)
(* permutations (num_permutations None or <= 1) every position appears in   *)
(* exactly one sub-sequence, once, in its original relative order.          *)
C2_IndexSetsPartition ==
  call = "resize_sequence" =>
    LET N      == Len(resize.cluster_id)
        K      == Len(resize.idx_sets)
        Set(l) == {resize.idx_sets[l][k] : k \in 1..Len(resize.idx_sets[l])}
    IN  /\ K = Cardinality(Labels(resize.cluster_id))
        /\ \A a, b \in 1..K : a # b => Set(a) \cap Set(b) = {}
        /\ UNION {Set(l) : l \in 1..K} = 0..(N - 1)
        /\ (resize.num_permutations = <<>> \/ resize.num_permutations[1] <= 1)
           => /\ Len(resize.sub_sequences) = K
              /\ \A p \in 0..(N - 1) :
                   Cardinality(
                     {ek \in (1..K) \X (1..N) :
                        /\ ek[2] <= Len(resize.gathered[ek[1]])
                        /\ resize.gathered[ek[1]][ek[2]] = p}) = 1
              /\ \A e \in 1..K :
                   /\ \A a, b \in 1..Len(resize.gathered[e]) :
                        a < b => resize.gathered[e][a] < resize.gathered[e][b]
                   /\ resize.sub_sequences[e]
                        = RowsAt(resize.sequence, resize.gathered[e])

\* interleaved labels, no permutation
C2_Witness ==
  /\ call = "resize_sequence"
  /\ resize.cluster_id = <<1, 0, 1>>
  /\ resize.num_permutations = <<>>
  /\ resize.idx_sets = <<(<<1>>), (<<0, 2>>)>>
  /\ Len(resize.sub_sequences[2]) = 2

----------------------------------------------------------------------------
(* C3 as stated: bias = (label changes between neighbours + 1) / N, in      *)
(* (0, 1], and cluster_id = [0,0,1,1,0] gives the documented 0.8.           *)
C3_BiasWithDocumentedExample ==
  call = "resize_sequence" =>
    LET c == resize.cluster_id
        N == Len(c)
    IN  /\ resize.bias.num = Cardinality({i \in 1..(N - 1) : c[i] # c[i + 1]}) + 1
        /\ resize.bias.den = N
        /\ 0 < resize.bias.num /\ resize.bias.num <= resize.bias.den
        /\ c = ExampleClusterId => resize.bias.num * 5 = 4 * resize.bias.den

(* C3 amended: bias = (label changes between neighbours + 1) / N, in        *)
(* (0, 1]; cluster_id = [0,0,1,1,0] has 2 changes and gives 3/5 = 0.6.      *)
C3_BiasFormula ==
  call = "resize_sequence" =>
    LET c == resize.cluster_id
        N == Len(c)
    IN  /\ resize.bias.num = Cardinality({i \in 1..(N - 1) : c[i] # c[i + 1]}) + 1
        /\ resize.bias.den = N
        /\ 0 < resize.bias.num /\ resize.bias.num <= resize.bias.den
        /\ c = ExampleClusterId => resize.bias.num * 5 = 3 * resize.bias.den

C3_Witness ==
  /\ call = "resize_sequence"
  /\ resize.cluster_id = ExampleClusterId
  /\ resize.bias = [num |-> 3, den |-> 5]

----------------------------------------------------------------------------
----------------------------------------------------------------------------
----------------------------------------------------------------------------
(* C6 as stated: with non_zero_entry_num > 0 the loss is >= 0 for every     *)
(* weight vector.                                                           *)
C6_LossNonNegative ==
  call = "weighted_mse_loss" =>
    LET nz == Cardinality({r \in 1..Len(mse.input_tensor) :
                             mse.input_tensor[r][1] # mse.target_tensor[r][1]})
    IN  nz > 0 => mse.loss.den > 0 /\ mse.loss.num >= 0

(* C6 amended: with non_zero_entry_num > 0 the loss is >= 0 for every       *)
(* weight vector whose entries are all >= 0.                                *)
C6_LossNonNegativeForNonNegativeWeights ==
  call = "weighted_mse_loss" =>
    LET nz == Cardinality({r \in 1..Len(mse.input_tensor) :
                             mse.input_tensor[r][1] # mse.target_tensor[r][1]})
    IN  (nz > 0 /\ \A d \in 1..Len(mse.weight) : mse.weight[d] >= 0)
          => mse.loss.den > 0 /\ mse.loss.num >= 0

\* a positive loss over two rows, one of them an exact match
C6_Witness ==
  /\ call = "weighted_mse_loss"
  /\ mse.input_tensor = <<(<<1, 0>>), (<<1, 1>>)>>
  /\ mse.target_tensor = <<(<<0, 1>>), (<<1, 1>>)>>
  /\ mse.weight = <<1, 2>>
  /\ mse.loss.num > 0 /\ mse.loss.den > 0

----------------------------------------------------------------------------
(* C7: the ground truth is rows 1.. of the padded input (one row fewer,     *)
(* same columns in the same order); the column count is batch_size in       *)
(* mini-batch mode and the number of sub-sequences in full-batch mode.      *)
C7_TruthIsShiftedInput ==
  (Packed /\ pack.status = "ok") =>
    LET columns == IF pack.batch_size = <<>> THEN Len(resize.sub_sequences)
                   ELSE pack.batch_size[1]
    IN  /\ Len(pack.rnn_truth) = Len(pack.rnn_input) - 1
        /\ \A t \in 1..Len(pack.rnn_truth) :
             pack.rnn_truth[t] = pack.rnn_input[t + 1]
        /\ \A t \in 1..Len(pack.rnn_input) : Len(pack.rnn_input[t]) = columns
        /\ \A t \in 1..Len(pack.rnn_truth) : Len(pack.rnn_truth[t]) = columns

\* a mini-batch of two columns, three time rows
C7_Witness ==
  /\ Packed /\ pack.status = "ok"
  /\ pack.batch_size = <<2>>
  /\ Len(pack.rnn_input) = 3 /\ Len(pack.rnn_truth) = 2
  /\ Len(pack.rnn_input[1]) = 2
  /\ ~ AllZero(pack.rnn_truth[1][1])

----------------------------------------------------------------------------
(* C8: with seq_lengths[k] = rows(sub_sequences[k]) + 1, every column c of  *)
(* the padded tensor has row 0 zero, rows 1..L_c-1 the observations, in     *)
(* order, of the one sub-sequence assigned to it, whose recorded length is  *)
(* L_c, and rows L_c.. zero; the L_c are non-increasing in c, the time      *)
(* dimension is the largest L_c, and the copies raise no shape error.       *)
C8_ColumnsHoldSubSequences ==
  (/\ Packed
   /\ \A k \in 1..Len(resize.seq_lengths) :
        resize.seq_lengths[k] = Len(resize.sub_sequences[k]) + 1
   /\ pack.batch_size = <<>> \/ pack.batch_size[1] >= 1) =>
    /\ pack.status = "ok"
    /\ LET T       == Len(pack.rnn_input)
           columns == Len(pack.rnn_input[1])
           \* the sub-sequence (0-based) assigned to column c (1-based)
           Src(c)  == IF pack.batch_size = <<>> THEN pack.permute_index[c]
                      ELSE pack.permute_index[pack.mini_batch[c] + 1]
           L(c)    == pack.lengths[c]
       IN  /\ Len(pack.lengths) = columns
           /\ \A c \in 1..columns :
                /\ resize.seq_lengths[Src(c) + 1] = L(c)
                /\ AllZero(pack.rnn_input[1][c])
                /\ \A t \in 2..L(c) :
                     pack.rnn_input[t][c] = resize.sub_sequences[Src(c) + 1][t - 1]
                /\ \A t \in (L(c) + 1)..T : AllZero(pack.rnn_input[t][c])
           /\ \A c \in 1..(columns - 1) : L(c) >= L(c + 1)
           /\ \E c \in 1..columns : L(c) = T
           /\ \A c \in 1..columns : L(c) <= T

\* a full batch whose second column is shorter than the first and padded
C8_Witness ==
  /\ Packed /\ pack.status = "ok"
  /\ pack.batch_size = <<>>
  /\ resize.cluster_id = <<1, 0, 1>>
  /\ resize.sequence = <<(<<1, -1>>), (<<2, -2>>), (<<3, -3>>)>>
  /\ pack.lengths = <<3, 2>>
  /\ pack.permute_index = <<1, 0>>
  /\ pack.rnn_input = << <<(<<0, 0>>), (<<0, 0>>)>>,
                         <<(<<1, -1>>), (<<2, -2>>)>>,
                         <<(<<3, -3>>), (<<0, 0>>)>> >>

----------------------------------------------------------------------------
(* C9: with num_permutations = P > 1 and K distinct labels the output has   *)
(* K*P entries; entries l*P .. l*P+P-1 belong to the l-th label ascending,  *)
(* each the observations of that label's positions in one block-preserving  *)
(* permutation, with recorded length = label count + 1 = rows + 1.  With    *)
(* num_permutations None, 0 or 1 there are K entries, one per label         *)
(* ascending.                                                               *)
C9_PermutedCopiesContiguous ==
  call = "resize_sequence" =>
    LET c  == resize.cluster_id
        K  == Cardinality(Labels(c))
        np == resize.num_permutations
    IN  /\ (np # <<>> /\ np[1] > 1) =>
             LET P == np[1]
             IN  /\ Len(resize.sub_sequences) = K * P
                 /\ Len(resize.seq_lengths) = K * P
                 /\ \A l \in 0..(K - 1) : \A j \in 0..(P - 1) :
                      LET e   == l * P + j + 1
                          pos == Positions(c, LabelOfRank(c, l + 1))
                      IN  /\ IsRunArrangement(resize.gathered[e], pos)
                          /\ resize.sub_sequences[e]
                               = RowsAt(resize.sequence, resize.gathered[e])
                          /\ resize.seq_lengths[e] = Len(pos) + 1
                          /\ resize.seq_lengths[e]
                               = Len(resize.sub_sequences[e]) + 1
        /\ (np = <<>> \/ np[1] \in {0, 1}) =>
             /\ Len(resize.sub_sequences) = K
             /\ Len(resize.seq_lengths) = K
             /\ \A l \in 1..K :
                  resize.sub_sequences[l]
                    = RowsAt(resize.sequence, Positions(c, LabelOfRank(c, l)))

\* two labels, two copies each, one copy of label 1 really reordered
C9_Witness ==
  /\ call = "resize_sequence"
  /\ resize.cluster_id = <<1, 0, 1>>
  /\ resize.num_permutations = <<2>>
  /\ resize.gathered = <<(<<1>>), (<<1>>), (<<2, 0>>), (<<0, 2>>)>>
  /\ resize.seq_lengths = <<2, 2, 3, 3>>

----------------------------------------------------------------------------
(* C10: with non_zero_entry_num > 0 the loss is                             *)
(* (sum over rows r, dims d of weight[d] * (input - target)[r,d]^2)         *)
(* / non_zero_entry_num, so appending rows in which input and target are    *)
(* both all zero leaves the loss unchanged.                                 *)
C10_PaddingLeavesLossUnchanged ==
  call = "weighted_mse_loss" =>
    LET inp == mse.input_tensor
        tgt == mse.target_tensor
        D   == Len(mse.weight)
        nz  == Cardinality({r \in 1..Len(inp) : inp[r][1] # tgt[r][1]})
        weighted_sum ==
          SumOf([rd \in (1..Len(inp)) \X (1..D) |->
                   mse.weight[rd[2]]
                     * (inp[rd[1]][rd[2]] - tgt[rd[1]][rd[2]])
                     * (inp[rd[1]][rd[2]] - tgt[rd[1]][rd[2]])])
        zero_row == [d \in 1..D |-> 0]
        Padded(x, k) == x \o [r \in 1..k |-> zero_row]
    IN  nz > 0 =>
          /\ mse.loss.den # 0
          /\ mse.loss.num * nz = weighted_sum * mse.loss.den
          /\ \A k \in 1..MaxPad :
               LET padded_loss == weighted_mse_loss(Padded(inp, k),
                                                    Padded(tgt, k), mse.weight)
               IN  /\ padded_loss.den # 0
                   /\ padded_loss.num * mse.loss.den
                        = mse.loss.num * padded_loss.den

\* a batch that already holds a padded row, with a loss of 3/1
C10_Witness ==
  /\ call = "weighted_mse_loss"
  /\ mse.input_tensor = <<(<<1, 1>>), (<<0, 0>>)>>
  /\ mse.target_tensor = <<(<<0, 0>>), (<<0, 0>>)>>
  /\ mse.weight = <<1, 2>>
  /\ mse.loss.den # 0
  /\ mse.loss.num = 3 * mse.loss.den

====
